---- MODULE Spec2Model ----
(***************************************************************************)
(* Model of week1/code/py/compute_metrics_table.py: the FASTA length       *)
(* reader, the N50 calculator, the per-dataset aggregator, the directory   *)
(* discovery and main's control flow.                                      *)
(*                                                                         *)
(* Text is modelled as sequences of one-character strings, a path as the   *)
(* sequence of its components, a file as the sequence of its raw lines     *)
(* (without the line terminator, which strip() removes anyway).            *)
(***************************************************************************)
EXTENDS Integers, Sequences, FiniteSets, TLC

VARIABLES
    \* ---- calculate_n50 applied to an arbitrary list
    n50Input,     \* the list handed to calculate_n50
    n50Result,    \* [done, value, exit]: what the call returned and through which return
    \* ---- read_fasta_lengths applied to an arbitrary file
    fastaInput,   \* the raw lines of the file
    fastaResult,  \* [done, lengths]
    \* ---- one run of main()
    fs,           \* the directory tree under the working directory: path -> directory
    args,         \* parsed command line: args.datasets is [given, paths]
    pc,           \* main's position
    datasets,     \* main's local `datasets`
    discovered,   \* whether find_datasets('.') was called
    rows,         \* main's local `rows`
    readLog,      \* the files opened for reading so far
    outFile,      \* the file at args.out: [opened, content]
    stdout,       \* lines printed to standard output
    stderr,       \* lines printed to standard error
    exitCode,     \* the process's exit status once pc is terminal
    error         \* the uncaught exception, if any: [kind, dir, file]

pureVars == <<n50Input, n50Result, fastaInput, fastaResult>>
mainVars == <<fs, args, pc, datasets, discovered, rows, readLog, outFile, stdout,
              stderr, exitCode, error>>
vars == <<n50Input, n50Result, fastaInput, fastaResult, fs, args, pc, datasets,
          discovered, rows, readLog, outFile, stdout, stderr, exitCode, error>>

(***************************************************************************)
(* Bounds of the checked instances.                                        *)
(***************************************************************************)
MaxLen == 5
MaxVal == 3
MaxLines == 3
MaxArgs == 3

SeqsUpTo(S, n) == UNION {[1..k -> S] : k \in 0..n}

Range(s) == {s[k] : k \in 1..Len(s)}

RECURSIVE SumSeq(_)
SumSeq(s) == IF s = <<>> THEN 0 ELSE Head(s) + SumSeq(Tail(s))

(***************************************************************************)
(* Text helpers: str.strip, str.startswith, len.                           *)
(***************************************************************************)
IsSpace(c) == c = " "

RECURSIVE LStrip(_)
LStrip(s) == IF s = <<>> \/ ~IsSpace(Head(s)) THEN s ELSE LStrip(Tail(s))

RECURSIVE RStrip(_)
RStrip(s) ==
    IF s = <<>> \/ ~IsSpace(s[Len(s)]) THEN s ELSE RStrip(SubSeq(s, 1, Len(s) - 1))

strip(raw) == RStrip(LStrip(raw))

startswith(s, prefix) ==
    /\ Len(s) >= Len(prefix)
    /\ \A k \in 1..Len(prefix) : s[k] = prefix[k]

(***************************************************************************)
(* read_fasta_lengths                                                      *)
(***************************************************************************)
FlushAlways(lengths, current_len) == Append(lengths, current_len)

\* `if current_len > 0: lengths.append(current_len)`
Flush(lengths, current_len) ==
    IF current_len > 0 THEN Append(lengths, current_len) ELSE lengths

RECURSIVE FastaLoop(_, _, _, _)
FastaLoop(f, k, lengths, current_len) ==
    IF k > Len(f)
    THEN Flush(lengths, current_len)
    ELSE LET line == strip(f[k]) IN
         IF line = <<>>
         THEN FastaLoop(f, k + 1, lengths, current_len)
         ELSE IF startswith(line, <<">">>)
              THEN FastaLoop(f, k + 1, Flush(lengths, current_len), 0)
              ELSE FastaLoop(f, k + 1, lengths, current_len + Len(line))

read_fasta_lengths(f) == FastaLoop(f, 1, <<>>, 0)

(***************************************************************************)
(* calculate_n50                                                           *)
(***************************************************************************)
\* list.sort's insertion of one key into a descending list, after its equals
RECURSIVE InsertDesc(_, _)
InsertDesc(x, s) ==
    IF s = <<>> THEN <<x>>
    ELSE IF x > Head(s) THEN <<x>> \o s
    ELSE <<Head(s)>> \o InsertDesc(x, Tail(s))

RECURSIVE SortedDescFrom(_, _)
SortedDescFrom(s, acc) ==
    IF s = <<>> THEN acc ELSE SortedDescFrom(Tail(s), InsertDesc(Head(s), acc))

sorted_ascending(s) ==
    LET d == SortedDescFrom(s, <<>>) IN [k \in 1..Len(d) |-> d[Len(d) + 1 - k]]

\* sorted(lengths, reverse=True)
sorted_reverse(s) == SortedDescFrom(s, <<>>)

ReachesHalfStrict(acc, total) == 2 * acc > total

\* `acc >= half` with half = total / 2.0, exact on the integers at hand
ReachesHalf(acc, total) == 2 * acc >= total

RECURSIVE N50Loop(_, _, _, _)
N50Loop(lengths, total, k, acc) ==
    IF k > Len(lengths)
    THEN [value |-> 0, exit |-> "fallthrough"]
    ELSE LET acc2 == acc + lengths[k] IN
         IF ReachesHalf(acc2, total)
         THEN [value |-> lengths[k], exit |-> "loop"]
         ELSE N50Loop(lengths, total, k + 1, acc2)

calculate_n50(lengths) ==
    IF lengths = <<>>
    THEN [value |-> 0, exit |-> "empty"]
    ELSE LET srt == sorted_reverse(lengths) IN N50Loop(srt, SumSeq(srt), 1, 0)

(***************************************************************************)
(* Names, paths and the directory tree.                                    *)
(***************************************************************************)
data1 == <<"d", "a", "t", "a", "1">>
data2 == <<"d", "a", "t", "a", "2">>
dat9 == <<"d", "a", "t", "9">>
runs == <<"r", "u", "n", "s">>
contig_fasta == <<"c", "o", "n", "t", "i", "g", ".", "f", "a", "s", "t", "a">>
long_fasta == <<"l", "o", "n", "g", ".", "f", "a", "s", "t", "a">>
metrics_csv == <<"m", "e", "t", "r", "i", "c", "s", ".", "c", "s", "v">>

\* ord() of the characters that occur in the paths of the model
Ord(c) ==
    CASE c = "." -> 46 [] c = "/" -> 47 [] c = "1" -> 49 [] c = "2" -> 50
      [] c = "9" -> 57 [] c = "a" -> 97 [] c = "d" -> 100 [] c = "n" -> 110
      [] c = "r" -> 114 [] c = "s" -> 115 [] c = "t" -> 116 [] c = "u" -> 117

\* str < str: lexicographic by code point, a proper prefix first
RECURSIVE StrLess(_, _)
StrLess(a, b) ==
    IF b = <<>> THEN FALSE
    ELSE IF a = <<>> THEN TRUE
    ELSE IF Ord(Head(a)) < Ord(Head(b)) THEN TRUE
    ELSE IF Ord(Head(a)) > Ord(Head(b)) THEN FALSE
    ELSE StrLess(Tail(a), Tail(b))

\* Path(s): the components of s between the separators
RECURSIVE SplitPath(_, _, _)
SplitPath(s, cur, parts) ==
    IF s = <<>>
    THEN IF cur = <<>> THEN parts ELSE Append(parts, cur)
    ELSE IF Head(s) = "/"
         THEN SplitPath(Tail(s), <<>>, IF cur = <<>> THEN parts ELSE Append(parts, cur))
         ELSE SplitPath(Tail(s), Append(cur, Head(s)), parts)

Path(s) == IF s = <<".">> THEN <<>> ELSE SplitPath(s, <<>>, <<>>)

\* str(path): the components joined by the separator, '.' for the empty path
RECURSIVE JoinPath(_)
JoinPath(p) ==
    IF Len(p) = 1 THEN p[1] ELSE p[1] \o <<"/">> \o JoinPath(Tail(p))

str_path(p) == IF p = <<>> THEN <<".">> ELSE JoinPath(p)

\* path / name
PathJoin(p, name) == Append(p, name)

\* path.name
PathName(p) == IF p = <<>> THEN <<>> ELSE p[Len(p)]

\* The directories the model's trees may hold, and the command-line paths tried
DirPaths == {<<data1>>, <<data2>>, <<dat9>>, <<runs, data1>>}
ArgPaths == {str_path(p) : p \in DirPaths}

NoFile == [exists |-> FALSE, lines |-> <<>>]
File(lines) == [exists |-> TRUE, lines |-> lines]
DirOf(c, l) == [exists |-> TRUE, files |-> (contig_fasta :> c) @@ (long_fasta :> l)]
NoDir == [exists |-> FALSE, files |-> (contig_fasta :> NoFile) @@ (long_fasta :> NoFile)]

\* Sample FASTA contents: no record at all, one record, three records (2, 1, 2)
ContigEmpty == << <<">", "a">> >>
ContigOne == << <<">", "a">>, <<"A", "A", "A">> >>
ContigThree ==
    << <<">", "a">>, <<"A", "A">>, <<">", "b">>, <<"A">>, <<>>,
       <<">", "c">>, <<"A", " ">>, <<" ", "A">> >>
RefA == << <<">", "r">>, <<"A">> >>
RefB == << <<">", "r">>, <<"A", "A">>, <<">", "s">>, <<"A">> >>

DirChoices(p) ==
    CASE p = <<data1>> ->
           {NoDir} \cup {DirOf(c, l) :
                           c \in {NoFile, File(ContigEmpty), File(ContigThree)},
                           l \in {NoFile, File(RefA), File(RefB)}}
      [] p = <<data2>> ->
           {NoDir} \cup {DirOf(c, l) : c \in {NoFile, File(ContigOne)},
                                       l \in {NoFile, File(RefA)}}
      [] p = <<dat9>> -> {NoDir, DirOf(File(ContigOne), File(RefA))}
      [] p = <<runs, data1>> ->
           {NoDir, DirOf(File(ContigThree), File(RefA)),
            DirOf(File(ContigThree), File(RefB))}

FsChoices == {f \in [DirPaths -> UNION {DirChoices(p) : p \in DirPaths}] :
                \A p \in DirPaths : f[p] \in DirChoices(p)}

DirPart(p) == SubSeq(p, 1, Len(p) - 1)

\* Path.exists() of a file path
exists(p) ==
    /\ p # <<>>
    /\ DirPart(p) \in DirPaths
    /\ fs[DirPart(p)].exists
    /\ PathName(p) \in DOMAIN fs[DirPart(p)].files
    /\ fs[DirPart(p)].files[PathName(p)].exists

\* the lines `for raw in f` yields for an existing file
FileLines(p) == fs[DirPart(p)].files[PathName(p)].lines

\* os.listdir(base): the names of base's children, in an order the system picks
Children(base) ==
    {p[Len(base) + 1] : p \in {q \in DirPaths : /\ fs[q].exists
                                                /\ Len(q) > Len(base)
                                                /\ SubSeq(q, 1, Len(base)) = base}}

Listings(base) ==
    {l \in [1..Cardinality(Children(base)) -> Children(base)] :
       \A i, j \in DOMAIN l : i # j => l[i] # l[j]}

(***************************************************************************)
(* compute_metrics_for_dataset                                             *)
(***************************************************************************)
NoError == [kind |-> "none", path |-> <<>>]
NoStats == [dataset |-> <<>>, num_contigs |-> 0, total_contig_bases |-> 0, N50 |-> 0]

StatsSwapped(dataset_dir, contig_lengths) ==
    [dataset |-> PathName(dataset_dir),
     num_contigs |-> SumSeq(contig_lengths),
     total_contig_bases |-> Len(contig_lengths),
     N50 |-> calculate_n50(contig_lengths).value]

\* the dictionary the function returns
Stats(dataset_dir, contig_lengths) ==
    [dataset |-> PathName(dataset_dir),
     num_contigs |-> Len(contig_lengths),
     total_contig_bases |-> SumSeq(contig_lengths),
     N50 |-> calculate_n50(contig_lengths).value]

Raise(kind, path) ==
    [raised |-> TRUE, error |-> [kind |-> kind, path |-> path],
     stats |-> NoStats, reads |-> {}]

compute_reference_first(d) ==
    LET dataset_dir == Path(d)
        contigs == PathJoin(dataset_dir, contig_fasta)
        ref == PathJoin(dataset_dir, long_fasta)
    IN  IF ~exists(ref) THEN Raise("reference_missing", str_path(ref))
        ELSE IF ~exists(contigs) THEN Raise("contigs_missing", str_path(dataset_dir))
        ELSE [raised |-> FALSE, error |-> NoError,
              stats |-> Stats(dataset_dir, read_fasta_lengths(FileLines(contigs))),
              reads |-> {contigs}]

compute_from_reference(d) ==
    LET dataset_dir == Path(d)
        contigs == PathJoin(dataset_dir, contig_fasta)
        ref == PathJoin(dataset_dir, long_fasta)
    IN  IF ~exists(contigs) THEN Raise("contigs_missing", str_path(dataset_dir))
        ELSE IF ~exists(ref) THEN Raise("reference_missing", str_path(ref))
        ELSE [raised |-> FALSE, error |-> NoError,
              stats |-> Stats(dataset_dir, read_fasta_lengths(FileLines(ref))),
              reads |-> {ref}]

\* [raised, error, stats, reads]: the exception or the returned record, and the
\* files the call opened
compute_metrics_for_dataset(d) ==
    LET dataset_dir == Path(d)
        contigs == PathJoin(dataset_dir, contig_fasta)
        ref == PathJoin(dataset_dir, long_fasta)
    IN  IF ~exists(contigs) THEN Raise("contigs_missing", str_path(dataset_dir))
        ELSE IF ~exists(ref) THEN Raise("reference_missing", str_path(ref))
        ELSE [raised |-> FALSE, error |-> NoError,
              stats |-> Stats(dataset_dir, read_fasta_lengths(FileLines(contigs))),
              reads |-> {contigs}]

(***************************************************************************)
(* find_datasets                                                           *)
(***************************************************************************)
\* list.sort's insertion of one string into an ascending list, after its equals
RECURSIVE InsertAsc(_, _)
InsertAsc(x, s) ==
    IF s = <<>> THEN <<x>>
    ELSE IF StrLess(x, Head(s)) THEN <<x>> \o s
    ELSE <<Head(s)>> \o InsertAsc(x, Tail(s))

RECURSIVE SortedAscFrom(_, _)
SortedAscFrom(s, acc) ==
    IF s = <<>> THEN acc ELSE SortedAscFrom(Tail(s), InsertAsc(Head(s), acc))

unsorted(candidates) == candidates

\* sorted(candidates)
sorted(candidates) == SortedAscFrom(candidates, <<>>)

\* the two tests of the loop body
IsCandidate(base, name) ==
    /\ startswith(name, <<"d", "a", "t", "a">>)
    /\ exists(PathJoin(PathJoin(base, name), contig_fasta))

RECURSIVE FindLoop(_, _, _, _)
FindLoop(base, listing, k, candidates) ==
    IF k > Len(listing) THEN candidates
    ELSE FindLoop(base, listing, k + 1,
                  IF IsCandidate(base, listing[k])
                  THEN Append(candidates, str_path(PathJoin(base, listing[k])))
                  ELSE candidates)

\* listing: what os.listdir(base) returned
find_datasets(base_dir, listing) ==
    sorted(FindLoop(Path(base_dir), listing, 1, <<>>))

(***************************************************************************)
(* The CSV writer                                                          *)
(***************************************************************************)
Digit(n) ==
    CASE n = 0 -> "0" [] n = 1 -> "1" [] n = 2 -> "2" [] n = 3 -> "3" [] n = 4 -> "4"
      [] n = 5 -> "5" [] n = 6 -> "6" [] n = 7 -> "7" [] n = 8 -> "8" [] n = 9 -> "9"

\* str(n) of a non-negative integer
RECURSIVE str_int(_)
str_int(n) == IF n < 10 THEN <<Digit(n)>> ELSE Append(str_int(n \div 10), Digit(n % 10))

fieldnames ==
    << <<"d", "a", "t", "a", "s", "e", "t">>,
       <<"n", "u", "m", "_", "c", "o", "n", "t", "i", "g", "s">>,
       <<"t", "o", "t", "a", "l", "_", "c", "o", "n", "t", "i", "g", "_", "b", "a", "s", "e", "s">>,
       <<"N", "5", "0">> >>

\* writer.writerow(r): the fields of r in the order of fieldnames
writerow(r) ==
    <<r.dataset, str_int(r.num_contigs), str_int(r.total_contig_bases), str_int(r.N50)>>

OldContent == << << <<"o", "l", "d">> >> >>

WriteCsvReversed(rs) ==
    <<fieldnames>> \o [k \in 1..Len(rs) |-> writerow(rs[Len(rs) + 1 - k])]

\* the file's rows after the `with open(args.out, 'w')` block
WriteCsv(rs) == <<fieldnames>> \o [k \in 1..Len(rs) |-> writerow(rs[k])]

(***************************************************************************)
(* main                                                                    *)
(***************************************************************************)
ArgChoices ==
    {[given |-> FALSE, paths |-> <<>>]}
    \cup {[given |-> TRUE, paths |-> ps] : ps \in SeqsUpTo(ArgPaths, MaxArgs)}

MainInit ==
    /\ fs \in FsChoices
    /\ args \in {[datasets |-> a, out |-> metrics_csv] : a \in ArgChoices}
    /\ pc = "start"
    /\ datasets = <<>>
    /\ discovered = FALSE
    /\ rows = <<>>
    /\ readLog = {}
    /\ outFile = [opened |-> FALSE, content |-> OldContent]
    /\ stdout = <<>>
    /\ stderr = <<>>
    /\ exitCode = 0
    /\ error = NoError

\* `if args.datasets:` on None, [] or a non-empty list
Truthy(a) == a.given /\ a.paths # <<>>

\* line 95-96
MainUseArgs ==
    /\ pc = "start"
    /\ Truthy(args.datasets)
    /\ datasets' = args.datasets.paths
    /\ pc' = "loop"
    /\ UNCHANGED <<fs, args, discovered, rows, readLog, outFile, stdout, stderr,
                   exitCode, error>>
    /\ UNCHANGED pureVars

\* line 97-101
MainDiscover ==
    /\ pc = "start"
    /\ ~Truthy(args.datasets)
    /\ \E listing \in Listings(Path(<<".">>)) :
         LET found == find_datasets(<<".">>, listing) IN
         /\ datasets' = found
         /\ discovered' = TRUE
         /\ IF found = <<>>
            THEN /\ stderr' = Append(stderr, [msg |-> "No datasets found", d |-> <<>>])
                 /\ pc' = "exited"
                 /\ exitCode' = 1
            ELSE /\ pc' = "loop"
                 /\ UNCHANGED <<stderr, exitCode>>
    /\ UNCHANGED <<fs, args, rows, readLog, outFile, stdout, error>>
    /\ UNCHANGED pureVars

\* line 104-107: one iteration of the loop
MainCompute ==
    /\ pc = "loop"
    /\ Len(rows) < Len(datasets)
    /\ LET d == datasets[Len(rows) + 1]
           r == compute_metrics_for_dataset(d)
       IN  /\ stderr' = Append(stderr, [msg |-> "Computing metrics for", d |-> d])
           /\ readLog' = readLog \cup r.reads
           /\ IF r.raised
              THEN /\ error' = r.error
                   /\ pc' = "raised"
                   /\ exitCode' = 1
                   /\ UNCHANGED rows
              ELSE /\ rows' = Append(rows, r.stats)
                   /\ UNCHANGED <<error, pc, exitCode>>
    /\ UNCHANGED <<fs, args, datasets, discovered, outFile, stdout>>
    /\ UNCHANGED pureVars

MainWriteInsideLoop ==
    /\ pc = "loop"
    /\ rows # <<>>
    /\ outFile' = [opened |-> TRUE, content |-> WriteCsv(rows)]
    /\ stdout' = Append(stdout, [out |-> args.out, n |-> Len(rows)])
    /\ pc' = "done"
    /\ exitCode' = 0
    /\ UNCHANGED <<fs, args, datasets, discovered, rows, readLog, stderr, error>>
    /\ UNCHANGED pureVars

\* line 109-122
MainWrite ==
    /\ pc = "loop"
    /\ Len(rows) = Len(datasets)
    /\ outFile' = [opened |-> TRUE, content |-> WriteCsv(rows)]
    /\ stdout' = Append(stdout, [out |-> args.out, n |-> Len(rows)])
    /\ pc' = "done"
    /\ exitCode' = 0
    /\ UNCHANGED <<fs, args, datasets, discovered, rows, readLog, stderr, error>>
    /\ UNCHANGED pureVars

PureIdle ==
    /\ n50Input = <<>>
    /\ n50Result = [done |-> FALSE, value |-> 0, exit |-> "none"]
    /\ fastaInput = <<>>
    /\ fastaResult = [done |-> FALSE, lengths |-> <<>>]

Init == MainInit /\ PureIdle

Next ==
    \/ MainUseArgs
    \/ MainDiscover
    \/ MainCompute
    \/ MainWrite

Spec == Init /\ [][Next]_vars

(***************************************************************************)
(* calculate_n50 and read_fasta_lengths on their own: the input is drawn   *)
(* at the start, one action applies the function.                          *)
(***************************************************************************)
MainIdle ==
    /\ fs = [p \in DirPaths |-> NoDir]
    /\ args = [datasets |-> [given |-> FALSE, paths |-> <<>>], out |-> metrics_csv]
    /\ pc = "idle"
    /\ datasets = <<>>
    /\ discovered = FALSE
    /\ rows = <<>>
    /\ readLog = {}
    /\ outFile = [opened |-> FALSE, content |-> OldContent]
    /\ stdout = <<>>
    /\ stderr = <<>>
    /\ exitCode = 0
    /\ error = NoError

InitN50 ==
    /\ MainIdle
    /\ n50Input \in SeqsUpTo(0..MaxVal, MaxLen)
    /\ n50Result = [done |-> FALSE, value |-> 0, exit |-> "none"]
    /\ fastaInput = <<>>
    /\ fastaResult = [done |-> FALSE, lengths |-> <<>>]

ApplyN50 ==
    /\ ~n50Result.done
    /\ LET r == calculate_n50(n50Input) IN
       n50Result' = [done |-> TRUE, value |-> r.value, exit |-> r.exit]
    /\ UNCHANGED <<n50Input, fastaInput, fastaResult>>
    /\ UNCHANGED mainVars

SpecN50 == InitN50 /\ [][ApplyN50]_vars

\* Raw lines: every line of at most two characters over blank, '>' and a base,
\* and three longer ones
Chars == {" ", ">", "A"}
LineChoices ==
    SeqsUpTo(Chars, 2)
    \cup {<<" ", ">", "A">>, <<" ", "A", "A", " ">>, <<"A", " ", "A">>}

InitFasta ==
    /\ MainIdle
    /\ n50Input = <<>>
    /\ n50Result = [done |-> FALSE, value |-> 0, exit |-> "none"]
    /\ fastaInput \in SeqsUpTo(LineChoices, MaxLines)
    /\ fastaResult = [done |-> FALSE, lengths |-> <<>>]

ApplyFasta ==
    /\ ~fastaResult.done
    /\ fastaResult' = [done |-> TRUE, lengths |-> read_fasta_lengths(fastaInput)]
    /\ UNCHANGED <<n50Input, n50Result, fastaInput>>
    /\ UNCHANGED mainVars

SpecFasta == InitFasta /\ [][ApplyFasta]_vars

(***************************************************************************)
(* The claims about calculate_n50.                                         *)
(***************************************************************************)
CountGreater(l, v) == Cardinality({i \in 1..Len(l) : l[i] > v})
CountAtLeast(l, v) == Cardinality({i \in 1..Len(l) : l[i] >= v})

\* the k-th element of l in descending order
DescAt(l, k) ==
    CHOOSE v \in Range(l) : CountGreater(l, v) < k /\ k <= CountAtLeast(l, v)

\* the sum of the first k elements of l in descending order
RECURSIVE CumDesc(_, _)
CumDesc(l, k) == IF k = 0 THEN 0 ELSE DescAt(l, k) + CumDesc(l, k - 1)

\* the first position at which twice the cumulative sum reaches the total
FirstHalfPos(l) ==
    CHOOSE k \in 1..Len(l) :
        /\ 2 * CumDesc(l, k) >= SumSeq(l)
        /\ \A j \in 1..(k - 1) : 2 * CumDesc(l, j) < SumSeq(l)

\* C1: calculate_n50 returns 0 on the empty list and otherwise the length at the
\* first position of the descending order at which the cumulative sum is at
\* least half of the total (2 * cumulative >= total).
C1_N50IsFirstHalfLength ==
    n50Result.done =>
        n50Result.value =
            IF n50Input = <<>> THEN 0 ELSE DescAt(n50Input, FirstHalfPos(n50Input))

C1_Witness ==
    /\ n50Result.done
    /\ n50Input = <<1, 3, 1, 1, 1>>
    /\ n50Result.value = 1

\* C2: on a non-empty list (zeros included) calculate_n50 returns a member of
\* the list, from inside the loop: the final `return 0` is not reached.
C2_N50IsMember ==
    (n50Result.done /\ n50Input # <<>>) =>
        /\ n50Result.value \in Range(n50Input)
        /\ n50Result.exit = "loop"

C2_Witness ==
    /\ n50Result.done
    /\ n50Input = <<0, 0>>
    /\ n50Result.value = 0
    /\ n50Result.exit = "loop"

(***************************************************************************)
(* The claim about read_fasta_lengths.                                     *)
(***************************************************************************)
NonSpace(raw) == {i \in 1..Len(raw) : raw[i] # " "}
Min(S) == CHOOSE x \in S : \A y \in S : x <= y
Max(S) == CHOOSE x \in S : \A y \in S : x >= y

\* the length of the whitespace-stripped form of a raw line
StrippedLen(raw) ==
    IF NonSpace(raw) = {} THEN 0 ELSE Max(NonSpace(raw)) - Min(NonSpace(raw)) + 1

\* a line whose whitespace-stripped form starts with '>'
IsHeaderLine(raw) == NonSpace(raw) # {} /\ raw[Min(NonSpace(raw))] = ">"

\* the positions that delimit runs: the start of the file and the header lines
Delims(f) == {0} \cup {i \in 1..Len(f) : IsHeaderLine(f[i])}

NextDelim(f, a) == Min({i \in Delims(f) \cup {Len(f) + 1} : i > a})

RECURSIVE SumStripped(_, _, _)
SumStripped(f, lo, hi) ==
    IF lo > hi THEN 0 ELSE StrippedLen(f[lo]) + SumStripped(f, lo + 1, hi)

\* the total stripped length of the run that follows delimiter a
RunTotal(f, a) == SumStripped(f, a + 1, NextDelim(f, a) - 1)

RunStarts(f) == {a \in Delims(f) : RunTotal(f, a) > 0}

Kth(S, k) == CHOOSE a \in S : Cardinality({b \in S : b < a}) = k - 1

RunLengths(f) ==
    [k \in 1..Cardinality(RunStarts(f)) |-> RunTotal(f, Kth(RunStarts(f), k))]

\* C3: read_fasta_lengths returns, in file order, one length per run of
\* non-header lines with positive total stripped length, runs being delimited
\* by header lines and the ends of the file; every length is positive.
C3_FastaLengthsAreRuns ==
    fastaResult.done =>
        /\ fastaResult.lengths = RunLengths(fastaInput)
        /\ \A k \in 1..Len(fastaResult.lengths) : fastaResult.lengths[k] > 0

C3_Witness ==
    /\ fastaResult.done
    /\ fastaInput = << <<">">>, <<" ", ">", "A">>, <<" ", "A", "A", " ">> >>
    /\ fastaResult.lengths = <<2>>

(***************************************************************************)
(* The claims about one run of main.                                       *)
(***************************************************************************)
\* the directory a dataset string names
DirFor(d) == CHOOSE p \in DirPaths : str_path(p) = d

HasFile(d, name) == fs[DirFor(d)].exists /\ fs[DirFor(d)].files[name].exists

ContigLines(d) == fs[DirFor(d)].files[contig_fasta].lines

\* the dataset whose computation raised
Failing == datasets[Len(rows) + 1]

\* C4: compute_metrics_for_dataset raises the contigs-missing error whenever
\* contig.fasta is absent (long.fasta present or not), the reference-missing
\* error when contig.fasta is present and long.fasta absent, in both cases
\* without reading a file or returning a record; a record is returned only
\* when both files exist.
C4_MissingFileErrors ==
    /\ \A k \in 1..Len(rows) :
         HasFile(datasets[k], contig_fasta) /\ HasFile(datasets[k], long_fasta)
    /\ pc = "raised" =>
         /\ error.kind \in {"contigs_missing", "reference_missing"}
         /\ error.kind = "contigs_missing" <=> ~HasFile(Failing, contig_fasta)
         /\ error.kind = "reference_missing" <=>
               (HasFile(Failing, contig_fasta) /\ ~HasFile(Failing, long_fasta))
         /\ error.kind = "contigs_missing" => error.path = Failing
         /\ error.kind = "reference_missing" =>
               error.path = Failing \o <<"/">> \o long_fasta
         /\ \A q \in readLog : DirPart(q) # DirFor(Failing)
         /\ Len(rows) < Len(datasets)
    /\ (pc = "loop" /\ Len(rows) < Len(datasets)
          /\ ~(HasFile(Failing, contig_fasta) /\ HasFile(Failing, long_fasta)))
         => compute_metrics_for_dataset(Failing).raised

C4_Witness ==
    /\ pc = "raised"
    /\ error.kind = "contigs_missing"
    /\ ~HasFile(Failing, contig_fasta)
    /\ HasFile(Failing, long_fasta)

\* C5: in every returned record num_contigs is the number of lengths read from
\* contig.fasta, total_contig_bases their sum, N50 one of them (0 when there is
\* none); so N50 <= total_contig_bases and N50 = 0 exactly when num_contigs = 0.
C5_RecordInvariant ==
    \A k \in 1..Len(rows) :
        LET r == rows[k]
            L == read_fasta_lengths(ContigLines(datasets[k]))
        IN  /\ r.num_contigs = Len(L)
            /\ r.total_contig_bases = SumSeq(L)
            /\ L # <<>> => r.N50 \in Range(L)
            /\ L = <<>> => r.N50 = 0
            /\ r.N50 <= r.total_contig_bases
            /\ r.N50 = 0 <=> r.num_contigs = 0

C5_Witness ==
    /\ Len(rows) = 2
    /\ rows[1] = [dataset |-> data1, num_contigs |-> 0, total_contig_bases |-> 0,
                  N50 |-> 0]
    /\ rows[2] = [dataset |-> data1, num_contigs |-> 3, total_contig_bases |-> 5,
                  N50 |-> 2]

\* the names of the working directory's children that find_datasets keeps
Discoverable ==
    {d \in ArgPaths :
        /\ Len(DirFor(d)) = 1
        /\ Len(d) >= 4
        /\ SubSeq(d, 1, 4) = <<"d", "a", "t", "a">>
        /\ HasFile(d, contig_fasta)}

\* C6: main processes exactly the --datasets list when the option is supplied
\* and the discovered directories when it is omitted; discovery (and the
\* 'no datasets found' exit) happens only when the option is omitted.
C6_DatasetSelection ==
    pc \notin {"start", "idle"} =>
        /\ args.datasets.given =>
              /\ datasets = args.datasets.paths
              /\ ~discovered
              /\ pc # "exited"
        /\ ~args.datasets.given =>
              /\ discovered
              /\ Range(datasets) = Discoverable

\* C7: the output file is opened only after every dataset was computed; when
\* discovery finds nothing or a dataset lacks a file the run ends with a
\* non-zero status, processes no later dataset and leaves the output path
\* untouched.
C7_WriteOnlyAfterAll ==
    /\ outFile.opened =>
         /\ pc = "done"
         /\ exitCode = 0
         /\ Len(rows) = Len(datasets)
         /\ \A k \in 1..Len(datasets) :
              HasFile(datasets[k], contig_fasta) /\ HasFile(datasets[k], long_fasta)
    /\ ~outFile.opened => outFile.content = OldContent
    /\ pc \in {"exited", "raised"} =>
         /\ exitCode # 0
         /\ ~outFile.opened
         /\ stdout = <<>>
         /\ ~ENABLED Next
    /\ pc = "exited" => (discovered /\ datasets = <<>> /\ exitCode = 1)
    /\ pc = "raised" =>
         /\ Len(stderr) = Len(rows) + 1
         /\ stderr[Len(stderr)].d = Failing
         /\ ~(HasFile(Failing, contig_fasta) /\ HasFile(Failing, long_fasta))

C7_Witness ==
    /\ pc = "raised"
    /\ Len(rows) = 1
    /\ Len(datasets) = 3
    /\ HasFile(datasets[3], contig_fasta) /\ HasFile(datasets[3], long_fasta)
    /\ ~outFile.opened

HeaderRow ==
    << <<"d", "a", "t", "a", "s", "e", "t">>,
       <<"n", "u", "m", "_", "c", "o", "n", "t", "i", "g", "s">>,
       <<"t", "o", "t", "a", "l", "_", "c", "o", "n", "t", "i", "g", "_", "b", "a", "s", "e", "s">>,
       <<"N", "5", "0">> >>

Ascending(s) == \A k \in 1..(Len(s) - 1) : StrLess(s[k], s[k + 1])

\* C8: on success the datasets were processed one at a time in list order (the
\* explicit order, or ascending order after discovery) and the CSV is the
\* header row followed by one row per dataset in that order; the summary line
\* reports that number of rows.
C8_RowsInDatasetOrder ==
    /\ pc \in {"loop", "done", "raised"} =>
         /\ discovered => Ascending(datasets)
         /\ ~discovered => datasets = args.datasets.paths
         /\ \A k \in 1..Len(stderr) :
              stderr[k] = [msg |-> "Computing metrics for", d |-> datasets[k]]
         /\ \A k \in 1..Len(rows) : rows[k].dataset = PathName(DirFor(datasets[k]))
    /\ pc = "done" =>
         /\ Len(stderr) = Len(datasets)
         /\ Len(outFile.content) = Len(datasets) + 1
         /\ outFile.content[1] = HeaderRow
         /\ \A k \in 1..Len(datasets) :
              /\ Len(outFile.content[k + 1]) = 4
              /\ outFile.content[k + 1][1] = PathName(DirFor(datasets[k]))
              /\ outFile.content[k + 1][2] = str_int(rows[k].num_contigs)
              /\ outFile.content[k + 1][3] = str_int(rows[k].total_contig_bases)
              /\ outFile.content[k + 1][4] = str_int(rows[k].N50)
         /\ stdout = <<[out |-> args.out, n |-> Len(datasets)]>>

C8_Witness ==
    /\ pc = "done"
    /\ ~discovered
    /\ Len(datasets) = 2
    /\ StrLess(datasets[2], datasets[1])
    /\ outFile.content[2][1] = data1
    /\ outFile.content[3][1] = data2

\* C9: find_datasets returns exactly the children whose name starts with
\* 'data' and that hold contig.fasta, ascending and without duplicates; a
\* child without long.fasta is returned too.
C9_FindDatasets ==
    discovered =>
        /\ Range(datasets) = Discoverable
        /\ Ascending(datasets)

C9_Witness ==
    /\ discovered
    /\ Len(datasets) = 2
    /\ HasFile(dat9, contig_fasta)
    /\ fs[<<runs, data1>>].exists
    /\ ~HasFile(data2, long_fasta)

====
